---- MODULE Spec2Model ----
(***************************************************************************)
(* A model of src/predict_score.py: the standings extractor                *)
(* (parse_standings), the source loop with its fallback                    *)
(* (get_current_standings), the synthetic generator                        *)
(* (generate_random_standings), the Poisson scoreline predictor            *)
(* (predict_scoreline) and the interactive driver (choose_team, main).     *)
(*                                                                         *)
(* Text is a sequence of one-character strings, so that int(), isdigit(),  *)
(* isalpha(), lstrip(), upper(), lower(), split() and the substring test   *)
(* are computed character by character.  A Python dict is a function; an   *)
(* exception leaving a call is the record [kind |-> "raise", exc |-> ..].  *)
(***************************************************************************)
EXTENDS Integers, Sequences, FiniteSets, TLC

VARIABLES
    pc,           \* position of the operation under study
    html,         \* the document handed to parse_standings
    teams,        \* a standings outcome: [kind |-> "ok", val |-> dict] or a raise
    fetched,      \* get_current_standings: what each source tried so far gave
    last_err,     \* get_current_standings: last_err
    t1,           \* main: outcome of the first choose_team
    t2,           \* main: outcome of the second choose_team
    team1_stats,  \* predict_scoreline: argument
    team2_stats,  \* predict_scoreline: argument
    max_goals,    \* predict_scoreline: argument
    res,          \* predict_scoreline: returned dict
    calls         \* main: number of predict_scoreline invocations so far

vars == <<pc, html, teams, fetched, last_err, t1, t2,
          team1_stats, team2_stats, max_goals, res, calls>>

\* The value of a variable the specification at hand does not use.
Unused == [kind |-> "unused"]

\* Python's None.
None == [kind |-> "None"]

Ok(v) == [kind |-> "ok", val |-> v]

Raise(e) == [kind |-> "raise", exc |-> e]

Max(a, b) == IF a >= b THEN a ELSE b

Min(a, b) == IF a <= b THEN a ELSE b

RECURSIVE Pow(_, _)
Pow(b, e) == IF e = 0 THEN 1 ELSE b * Pow(b, e - 1)

RECURSIVE Fact(_)
Fact(n) == IF n <= 1 THEN 1 ELSE n * Fact(n - 1)

\* A stats dict with the eight keys of a standings record.
Stats(gp, w, d, l, f, a, gd, pts) ==
    [GP |-> gp, W |-> w, D |-> d, L |-> l, F |-> f, A |-> a, GD |-> gd, PTS |-> pts]

(***************************************************************************)
(* predict_scoreline.                                                      *)
(*                                                                         *)
(* Rates are exact rationals [num, den].  A probability is carried as the  *)
(* integer  P * C  where  C = exp(lamb1 + lamb2) * (K! * den1^K * den2^K)  *)
(* with K = max_goals - 1: C is positive and the same for every cell of    *)
(* one call, so the order of, and the ties between, the cells' values are  *)
(* those of the exact Poisson products.                                    *)
(***************************************************************************)

\* (x/max(1, gp1) + y/max(1, gp2)) / 2.0, as a fraction.
ExpectedRate(x, gp1, y, gp2) ==
    [num |-> x * Max(1, gp2) + y * Max(1, gp1),
     den |-> 2 * Max(1, gp1) * Max(1, gp2)]

\* lam^k * exp(-lam) / k!, times exp(lam) * lam.den^K * K!.
poisson_pmf(k, lam, K) ==
    Pow(lam.num, k) * Pow(lam.den, K - k) * (Fact(K) \div Fact(k))

lamb1(s1, s2) == ExpectedRate(s1.F, s1.GP, s2.A, s2.GP)

lamb2(s1, s2) == ExpectedRate(s2.F, s2.GP, s1.A, s1.GP)

\* prob = p1 * p2 of the cell (g1, g2).
JointProb(s1, s2, M, g1, g2) ==
    poisson_pmf(g1, lamb1(s1, s2), M - 1) * poisson_pmf(g2, lamb2(s1, s2), M - 1)

\* all_probs after the two loops: g1 ascending outside, g2 ascending inside.
AllProbs(s1, s2, M) ==
    [i \in 1..(M * M) |->
        [score |-> <<(i - 1) \div M, (i - 1) % M>>,
         prob  |-> JointProb(s1, s2, M, (i - 1) \div M, (i - 1) % M)]]

\* A mutant of Replaces: a tie replaces the best cell too.
ReplacesOnTie(best, e) == best = None \/ e.prob >= best.prob

\* The condition under which the loop replaces best by the cell e.
Replaces(best, e) == best = None \/ e.prob > best.prob

\* best after the first n cells of all_probs.
RECURSIVE BestAfter(_, _)
BestAfter(all, n) ==
    IF n = 0 THEN None
    ELSE LET b == BestAfter(all, n - 1)
         IN  IF Replaces(b, all[n]) THEN all[n] ELSE b

\* Where a stable descending sort puts e among the already sorted s: after
\* every element whose key is not smaller.
RECURSIVE InsertDesc(_, _)
InsertDesc(s, e) ==
    IF s = <<>> THEN <<e>>
    ELSE IF Head(s).prob >= e.prob THEN <<Head(s)>> \o InsertDesc(Tail(s), e)
         ELSE <<e>> \o s

\* A mutant of SortedDesc: ascending order.
RECURSIVE SortedAsc(_, _)
SortedAsc(all, n) ==
    IF n = 0 THEN <<>>
    ELSE LET s == SortedAsc(all, n - 1)
             k == Cardinality({j \in 1..Len(s) : s[j].prob <= all[n].prob})
         IN  SubSeq(s, 1, k) \o <<all[n]>> \o SubSeq(s, k + 1, Len(s))

\* sorted(all_probs, key=lambda x: x[1], reverse=True) of the first n cells.
RECURSIVE SortedDesc(_, _)
SortedDesc(all, n) ==
    IF n = 0 THEN <<>> ELSE InsertDesc(SortedDesc(all, n - 1), all[n])

\* A mutant of Shortlist: one entry short.
ShortlistFive(s) == SubSeq(s, 1, Min(5, Len(s)))

\* The slice [:6].
Shortlist(s) == SubSeq(s, 1, Min(6, Len(s)))

predict_scoreline(s1, s2, M) ==
    LET all  == AllProbs(s1, s2, M)
        best == BestAfter(all, M * M)
    IN  IF best = None
        THEN Raise("TypeError")
        ELSE Ok([expected |-> best.score,
                 prob     |-> best.prob,
                 top      |-> Shortlist(SortedDesc(all, M * M)),
                 lambda   |-> <<lamb1(s1, s2), lamb2(s1, s2)>>])

(***************************************************************************)
(* Bounds of the predictor's inputs.                                       *)
(***************************************************************************)
MaxGP == 2

MaxGoalStat == 2

MaxGoalsCap == 3

PredictorStats ==
    {Stats(gp, 0, 0, 0, f, a, 0, 0) :
        gp \in 0..MaxGP, f \in 0..MaxGoalStat, a \in 0..MaxGoalStat}

InitPredict ==
    /\ pc = "call"
    /\ team1_stats \in PredictorStats
    /\ team2_stats \in PredictorStats
    /\ max_goals \in 1..MaxGoalsCap
    /\ res = None
    /\ html = Unused /\ teams = Unused /\ fetched = Unused /\ last_err = Unused
    /\ t1 = Unused /\ t2 = Unused
    /\ calls = 0

\* One call of predict_scoreline on the drawn arguments.
Predict ==
    /\ pc = "call"
    /\ res' = predict_scoreline(team1_stats, team2_stats, max_goals)
    /\ pc' = "done"
    /\ UNCHANGED <<html, teams, fetched, last_err, t1, t2,
                   team1_stats, team2_stats, max_goals, calls>>

NextPredict == Predict

SpecPredict == InitPredict /\ [][NextPredict]_vars

\* The grid 0 <= g1, g2 < max_goals.
Grid == (0..(max_goals - 1)) \X (0..(max_goals - 1))

CellProb(c) == JointProb(team1_stats, team2_stats, max_goals, c[1], c[2])

LexLeq(c, d) == c[1] < d[1] \/ (c[1] = d[1] /\ c[2] <= d[2])

Predicted == pc = "done" /\ res.kind = "ok"

\* C6: the returned best scoreline attains the maximum joint probability over
\* the grid, and among the cells attaining it is the lexicographically
\* smallest (g1, g2).
C6_TieBreakDeterminism ==
    pc = "done" =>
        /\ res.kind = "ok"
        /\ res.val.expected \in Grid
        /\ res.val.prob = CellProb(res.val.expected)
        /\ \A c \in Grid :
              /\ CellProb(c) <= res.val.prob
              /\ CellProb(c) = res.val.prob => LexLeq(res.val.expected, c)

\* A call whose maximum is attained by more than one cell.
C6_Witness ==
    /\ Predicted
    /\ \E c \in Grid : c # res.val.expected /\ CellProb(c) = res.val.prob

InTop(c) == \E j \in 1..Len(res.val.top) : res.val.top[j].score = c

\* C7: the shortlist has length min(6, M*M), its probabilities are
\* non-increasing, every grid cell left out of it has a probability no greater
\* than its last entry, and the best probability is that of its first entry.
C7_ShortlistOrdered ==
    pc = "done" =>
        /\ res.kind = "ok"
        /\ Len(res.val.top) = Min(6, max_goals * max_goals)
        /\ \A j \in 1..Len(res.val.top) :
              /\ res.val.top[j].score \in Grid
              /\ res.val.top[j].prob = CellProb(res.val.top[j].score)
        /\ \A j \in 1..(Len(res.val.top) - 1) :
              res.val.top[j].prob >= res.val.top[j + 1].prob
        /\ \A c \in Grid :
              ~InTop(c) => CellProb(c) <= res.val.top[Len(res.val.top)].prob
        /\ res.val.prob = res.val.top[1].prob

\* A call whose grid has more than six cells of which not all are equal.
C7_Witness ==
    /\ Predicted
    /\ max_goals * max_goals > 6
    /\ \E c \in Grid : ~InTop(c) /\ CellProb(c) < res.val.top[6].prob
    /\ res.val.top[1].prob > res.val.top[6].prob

\* C10: the best scoreline is the cell of the first entry of the shortlist,
\* exact ties included.
C10_BestIsFirstOfShortlist ==
    pc = "done" =>
        /\ res.kind = "ok"
        /\ res.val.top[1].score = res.val.expected

\* A call in which another cell ties with the best one.
C10_Witness ==
    /\ Predicted
    /\ \E j \in 2..Len(res.val.top) : res.val.top[j].prob = res.val.prob

(***************************************************************************)
(* Text.                                                                   *)
(***************************************************************************)
Digits == <<"0", "1", "2", "3", "4", "5", "6", "7", "8", "9">>

Lowers ==
    <<"a", "b", "c", "d", "e", "f", "g", "h", "i", "j", "k", "l", "m",
      "n", "o", "p", "q", "r", "s", "t", "u", "v", "w", "x", "y", "z">>

Uppers ==
    <<"A", "B", "C", "D", "E", "F", "G", "H", "I", "J", "K", "L", "M",
      "N", "O", "P", "Q", "R", "S", "T", "U", "V", "W", "X", "Y", "Z">>

Range(s) == {s[i] : i \in 1..Len(s)}

IndexIn(s, c) == CHOOSE i \in 1..Len(s) : s[i] = c

\* ch.isalpha()
isalpha(ch) == ch \in Range(Lowers) \cup Range(Uppers)

\* str.upper() and str.lower()
upper(t) ==
    [i \in 1..Len(t) |->
        IF t[i] \in Range(Lowers) THEN Uppers[IndexIn(Lowers, t[i])] ELSE t[i]]

lower(t) ==
    [i \in 1..Len(t) |->
        IF t[i] \in Range(Uppers) THEN Lowers[IndexIn(Uppers, t[i])] ELSE t[i]]

\* str.isdigit()
isdigit(t) == t # <<>> /\ \A i \in 1..Len(t) : t[i] \in Range(Digits)

\* str.lstrip('+-')
RECURSIVE lstrip_signs(_)
lstrip_signs(t) ==
    IF t # <<>> /\ Head(t) \in {"+", "-"} THEN lstrip_signs(Tail(t)) ELSE t

\* The number a string of decimal digits denotes.
RECURSIVE DigitsValue(_)
DigitsValue(t) ==
    IF t = <<>> THEN 0
    ELSE 10 * DigitsValue(SubSeq(t, 1, Len(t) - 1)) + (IndexIn(Digits, t[Len(t)]) - 1)

\* int(t) for a text without blanks or underscores: an optional sign and
\* decimal digits, or ValueError.
int(t) ==
    LET body == IF t # <<>> /\ Head(t) \in {"+", "-"} THEN Tail(t) ELSE t
    IN  IF isdigit(body)
        THEN Ok(IF Head(t) = "-" THEN 0 - DigitsValue(body) ELSE DigitsValue(body))
        ELSE Raise("ValueError")

\* needle in hay
Contains(hay, needle) ==
    \E i \in 0..(Len(hay) - Len(needle)) : SubSeq(hay, i + 1, i + Len(needle)) = needle

\* " ".join(ts)
RECURSIVE join(_)
join(ts) ==
    IF ts = <<>> THEN <<>>
    ELSE IF Len(ts) = 1 THEN ts[1]
    ELSE ts[1] \o <<" ">> \o join(Tail(ts))

\* line.strip().split(): the maximal runs of characters other than the space.
RECURSIVE split(_)
split(t) ==
    IF t = <<>> THEN <<>>
    ELSE IF Head(t) = " " THEN split(Tail(t))
    ELSE LET stops == {i \in 1..Len(t) : t[i] = " "}
             n     == IF stops = {} THEN Len(t)
                      ELSE (CHOOSE i \in stops : \A j \in stops : i <= j) - 1
         IN  <<SubSeq(t, 1, n)>> \o split(SubSeq(t, n + 1, Len(t)))

(***************************************************************************)
(* parse_standings.                                                        *)
(*                                                                         *)
(* A document is [tables, text]: its <table> elements in document order,   *)
(* each [headers, rows] with the stripped texts of its <th> cells and, per *)
(* <tr>, [cells, ints]: the stripped texts of its <td> cells (none for a   *)
(* header row), and the lines of text outside the tables.  ints is not     *)
(* read by the parser: it records the integers the row's integer cells     *)
(* were rendered from.                                                     *)
(***************************************************************************)

\* all(x in header_text for x in ("W", "L", "F", "A", "GD", "PTS"))
IsCandidate(table) ==
    LET header_text == upper(join(table.headers))
    IN  \A x \in {<<"W">>, <<"L">>, <<"F">>, <<"A">>, <<"G", "D">>, <<"P", "T", "S">>} :
            Contains(header_text, x)

\* A mutant of NameWindow: the first two cells only.
NameWindowTwo(cols) == SubSeq(cols, 1, Min(2, Len(cols)))

\* cols[:3]
NameWindow(cols) == SubSeq(cols, 1, Min(3, Len(cols)))

HasAlpha(c) == \E i \in 1..Len(c) : isalpha(c[i])

\* The name column of a row: the first of NameWindow with a letter, or None.
NameOf(cols) ==
    LET win  == NameWindow(cols)
        hits == {i \in 1..Len(win) : HasAlpha(win[i])}
    IN  IF hits = {} THEN None
        ELSE Ok(win[CHOOSE i \in hits : \A j \in hits : i <= j])

\* nums: the cells int() accepts, as integers, in column order.
RECURSIVE RowNums(_)
RowNums(cols) ==
    IF cols = <<>> THEN <<>>
    ELSE LET v == int(Head(cols))
         IN  (IF v.kind = "ok" THEN <<v.val>> ELSE <<>>) \o RowNums(Tail(cols))

\* nums[-8:]
LastEight(nums) == SubSeq(nums, Len(nums) - 7, Len(nums))

\* nums[:8]
FirstEight(nums) == SubSeq(nums, 1, 8)

\* GP, W, D, L, F, A, GD, PTS = nums
RecordOf(nums) ==
    Stats(nums[1], nums[2], nums[3], nums[4], nums[5], nums[6], nums[7], nums[8])

\* teams after the rows from index i on, teams holding acc.
RECURSIVE RowsLoop(_, _, _)
RowsLoop(rows, i, acc) ==
    IF i > Len(rows) THEN acc
    ELSE LET cols == rows[i].cells
             name == NameOf(cols)
             nums == RowNums(cols)
         IN  IF cols = <<>> \/ name = None \/ Len(nums) < 8
             THEN RowsLoop(rows, i + 1, acc)
             ELSE RowsLoop(rows, i + 1, (name.val :> RecordOf(FirstEight(nums))) @@ acc)

TableTeams(table) == RowsLoop(table.rows, 1, <<>>)

\* A table ends the search: it is a candidate and its teams is not empty.
TableWins(table) == IsCandidate(table) /\ TableTeams(table) # <<>>

\* The loop over the tables from index i on: the teams returned from inside
\* it, or None when it ends without returning.
RECURSIVE TablesLoop(_, _)
TablesLoop(tables, i) ==
    IF i > Len(tables) THEN None
    ELSE IF TableWins(tables[i]) THEN Ok(TableTeams(tables[i]))
    ELSE TablesLoop(tables, i + 1)

\* soup.get_text(separator="\n").splitlines(): one line per text node, those
\* of the tables' cells and the lines of text.
RECURSIVE CellLines(_)
CellLines(tables) ==
    IF tables = <<>> THEN <<>>
    ELSE LET t == Head(tables)
             RECURSIVE RowLines(_)
             RowLines(rows) ==
                 IF rows = <<>> THEN <<>> ELSE Head(rows).cells \o RowLines(Tail(rows))
         IN  t.headers \o RowLines(t.rows) \o CellLines(Tail(tables))

get_text_lines(doc) == CellLines(doc.tables) \o doc.text

\* token.lstrip('+-').isdigit()
LooksNumeric(token) == isdigit(lstrip_signs(token))

\* The scan of reversed(parts) from token i down, nums holding acc: nums when
\* it ends, or the ValueError of int(token).
RECURSIVE ScanBack(_, _, _)
ScanBack(parts, i, acc) ==
    IF i = 0 \/ Len(acc) = 8 THEN Ok(acc)
    ELSE IF LooksNumeric(parts[i])
         THEN LET v == int(parts[i])
              IN  IF v.kind = "raise" THEN v
                  ELSE ScanBack(parts, i - 1, <<v.val>> \o acc)
         ELSE ScanBack(parts, i - 1, acc)

\* parts[1:len(parts)-8]
NameTokens(parts) == SubSeq(parts, 2, Len(parts) - 8)

\* The textual fallback from line i on, teams holding acc.
RECURSIVE LinesLoop(_, _, _)
LinesLoop(lines, i, acc) ==
    IF i > Len(lines) THEN Ok(acc)
    ELSE LET parts == split(lines[i])
         IN  IF Len(parts) >= 9 /\ isdigit(parts[1])
             THEN LET nums == ScanBack(parts, Len(parts), <<>>)
                  IN  IF nums.kind = "raise" THEN nums
                      ELSE IF Len(nums.val) = 8
                      THEN LinesLoop(lines, i + 1,
                               (join(NameTokens(parts)) :> RecordOf(nums.val)) @@ acc)
                      ELSE LinesLoop(lines, i + 1, acc)
             ELSE LinesLoop(lines, i + 1, acc)

\* parse_standings(html), BeautifulSoup being installed.
parse_standings(doc) ==
    LET found == TablesLoop(doc.tables, 1)
    IN  IF found # None THEN found
        ELSE LinesLoop(get_text_lines(doc), 1, <<>>)

\* One call of parse_standings on the drawn document.
Parse ==
    /\ pc = "call"
    /\ teams' = parse_standings(html)
    /\ pc' = "done"
    /\ UNCHANGED <<html, fetched, last_err, t1, t2,
                   team1_stats, team2_stats, max_goals, res, calls>>

NextParse == Parse

\* The variables a call of parse_standings does not use.
ParseIdle ==
    /\ pc = "call" /\ teams = None
    /\ fetched = Unused /\ last_err = Unused
    /\ t1 = Unused /\ t2 = Unused
    /\ team1_stats = Unused /\ team2_stats = Unused /\ max_goals = Unused
    /\ res = Unused /\ calls = 0

(***************************************************************************)
(* Documents for parse_standings.                                          *)
(***************************************************************************)

\* The decimal text of a natural number, and of an integer.
RECURSIVE NatText(_)
NatText(n) ==
    IF n < 10 THEN <<Digits[n + 1]>> ELSE NatText(n \div 10) \o <<Digits[(n % 10) + 1]>>

ToText(n) == IF n < 0 THEN <<"-">> \o NatText(0 - n) ELSE NatText(n)

\* A goal difference as standings show it: "+6", "0", "-8".
SignedText(n) == IF n > 0 THEN <<"+">> \o NatText(n) ELSE ToText(n)

\* The cells of the integers v, the seventh (GD) with its sign.
IntCells(v) == [k \in 1..Len(v) |-> IF k = 7 THEN SignedText(v[k]) ELSE ToText(v[k])]

EmptyCell == <<>>

Headers ==
    {<< <<"G", "P">>, <<"W">>, <<"D">>, <<"L">>, <<"F">>, <<"A">>, <<"G", "D">>, <<"P", "T", "S">> >>,
     << <<"T", "e", "a", "m">>, <<"g", "p">>, <<"w">>, <<"d">>, <<"l">>,
        <<"f", "-", "a">>, <<"g", "d">>, <<"p", "t", "s">> >>,
     << <<"G", "P">>, <<"W">>, <<"D">>, <<"L">>, <<"F">>, <<"A">>, <<"G", "D">>, <<"P">> >>}

Names == {<<"R", "M">>, <<"F", "C", "B">>}

Vectors == {<<9, 5, 2, 2, 14, 8, 6, 17>>, <<10, 2, 1, 7, 7, 15, -8, 7>>}

\* What precedes the name cell: nothing, two or three empty cells (a logo
\* column), or a rank.
Leads ==
    {[cells |-> <<>>, ints |-> <<>>],
     [cells |-> <<EmptyCell, EmptyCell>>, ints |-> <<>>],
     [cells |-> <<EmptyCell, EmptyCell, EmptyCell>>, ints |-> <<>>],
     [cells |-> <<ToText(1)>>, ints |-> <<1>>]}

PlainRow(lead, name, v) ==
    [cells |-> lead.cells \o <<name>> \o IntCells(v), ints |-> lead.ints \o v]

\* A row with a composite "F-A" cell among its integer cells.
CompositeRow(name, v) ==
    [cells |-> <<name>> \o SubSeq(IntCells(v), 1, 4)
                  \o <<ToText(v[5]) \o <<"-">> \o ToText(v[6])>>
                  \o SubSeq(IntCells(v), 5, 8),
     ints |-> v]

\* A row one integer short.
ShortRow(name, v) ==
    [cells |-> <<name>> \o SubSeq(IntCells(v), 1, 7), ints |-> SubSeq(v, 1, 7)]

\* A <tr> of <th> cells only.
HeaderRow == [cells |-> <<>>, ints |-> <<>>]

Rows ==
    {PlainRow(lead, name, v) : lead \in Leads, name \in Names, v \in Vectors}
    \cup {CompositeRow(name, v) : name \in Names, v \in Vectors}
    \cup {ShortRow(<<"R", "M">>, <<9, 5, 2, 2, 14, 8, 6, 17>>), HeaderRow}

SeqsUpTo(S, n) == UNION {[1..k -> S] : k \in 0..n}

\* The most rows a drawn table has.
MaxRows == 2

InitExtract ==
    /\ html \in {[tables |-> <<[headers |-> h, rows |-> rs]>>, text |-> <<>>] :
                    h \in Headers, rs \in SeqsUpTo(Rows, MaxRows)}
    /\ ParseIdle

SpecExtract == InitExtract /\ [][NextParse]_vars

\* The first cell of a row that holds a letter (0 when none does).
FirstAlpha(cells) ==
    IF \E j \in 1..Len(cells) : HasAlpha(cells[j])
    THEN CHOOSE j \in 1..Len(cells) :
             HasAlpha(cells[j]) /\ \A k \in 1..(j - 1) : ~HasAlpha(cells[k])
    ELSE 0

TheTable == html.tables[1]

\* The claim's table: a qualifying header, and in every row a name cell and
\* eight integer cells.
C3_Table ==
    /\ IsCandidate(TheTable)
    /\ \A i \in 1..Len(TheTable.rows) :
          /\ FirstAlpha(TheTable.rows[i].cells) > 0
          /\ Len(TheTable.rows[i].ints) = 8

\* C3 as stated: such a table gives one record per row, and each row's eight
\* integers, in order, are the statistics of a record.
C3_RoundTrip ==
    pc = "done" /\ C3_Table =>
        /\ teams.kind = "ok"
        /\ Cardinality(DOMAIN teams.val) = Len(TheTable.rows)
        /\ \A i \in 1..Len(TheTable.rows) :
              \E n \in DOMAIN teams.val : teams.val[n] = RecordOf(TheTable.rows[i].ints)

DataRows == {i \in 1..Len(TheTable.rows) : TheTable.rows[i].cells # <<>>}

RowName(i) == TheTable.rows[i].cells[FirstAlpha(TheTable.rows[i].cells)]

\* The amended claim's table: a qualifying header, at least one data row, and
\* in every data row eight integer cells and a name cell (its first cell
\* with a letter) among its first three cells, no two rows sharing a name.
C3_TableDistinctNames ==
    /\ IsCandidate(TheTable)
    /\ DataRows # {}
    /\ \A i \in DataRows :
          /\ FirstAlpha(TheTable.rows[i].cells) \in 1..3
          /\ Len(TheTable.rows[i].ints) = 8
    /\ \A i, j \in DataRows : i # j => RowName(i) # RowName(j)

\* C3 as amended: such a table gives one record per data row, keyed by the
\* row's name cell, whose statistics are the row's eight integers in order.
C3_RoundTripDistinctNames ==
    pc = "done" /\ C3_TableDistinctNames =>
        /\ teams.kind = "ok"
        /\ DOMAIN teams.val = {RowName(i) : i \in DataRows}
        /\ Cardinality(DOMAIN teams.val) = Cardinality(DataRows)
        /\ \A i \in DataRows : teams.val[RowName(i)] = RecordOf(TheTable.rows[i].ints)

\* Two rows parsed, one with its name in the third cell and one with a
\* composite cell, and a negative goal difference among them.
C3_Witness ==
    /\ pc = "done"
    /\ C3_TableDistinctNames
    /\ teams.kind = "ok"
    /\ Cardinality(DOMAIN teams.val) = 2
    /\ \E i \in DataRows : FirstAlpha(TheTable.rows[i].cells) = 3
    /\ \E i \in DataRows : Len(TheTable.rows[i].cells) = 10
                              /\ FirstAlpha(TheTable.rows[i].cells) = 1
    /\ \E n \in DOMAIN teams.val : teams.val[n].GD < 0
    /\ \E n \in DOMAIN teams.val : teams.val[n].GD > 0

(***************************************************************************)
(* Documents of text lines only, for the textual fallback.                 *)
(***************************************************************************)
Real == <<"R", "e", "a", "l">>

Madrid == <<"M", "a", "d", "r", "i", "d">>

\* A rank, and a rank followed by a dot.
Ranks == {<<"1">>, <<"1", ".">>}

NameTokenSeqs == {<<>>, <<Real>>, <<Real, Madrid>>}

\* What follows the name: eight integers; eight integers with a composite
\* "F-A" token among them; eight integers and a form token; seven integers.
Tails ==
    {IntCells(v) : v \in Vectors}
    \cup {SubSeq(IntCells(v), 1, 4) \o <<ToText(v[5]) \o <<"-">> \o ToText(v[6])>>
              \o SubSeq(IntCells(v), 5, 8) : v \in {<<9, 5, 2, 2, 14, 8, 6, 17>>}}
    \cup {IntCells(v) \o << <<"W", "W", "D">> >> : v \in {<<9, 5, 2, 2, 14, 8, 6, 17>>}}
    \cup {SubSeq(IntCells(v), 2, 8) : v \in {<<9, 5, 2, 2, 14, 8, 6, 17>>}}

TextLines ==
    {join(<<rank>> \o name \o tail) :
        rank \in Ranks, name \in NameTokenSeqs, tail \in Tails}
    \cup {<<" ", " ">> \o join(<<<<"1">>, Madrid>> \o IntCells(<<10, 2, 1, 7, 7, 15, -8, 7>>))
              \o <<" ">>}

\* The most lines a drawn text has.
MaxTextLines == 2

InitText ==
    /\ html \in {[tables |-> <<>>, text |-> ls] : ls \in SeqsUpTo(TextLines, MaxTextLines)}
    /\ ParseIdle

SpecText == InitText /\ [][NextParse]_vars

\* A signed-integer token: an optional sign and digits.
IsSignedInt(token) == int(token).kind = "ok"

LineParts(k) == split(html.text[k])

\* An eligible line from which eight signed-integer tokens are collected.
Collects(k) ==
    /\ Len(LineParts(k)) >= 9
    /\ isdigit(LineParts(k)[1])
    /\ Cardinality({j \in 1..Len(LineParts(k)) : IsSignedInt(LineParts(k)[j])}) >= 8

\* The first (leftmost) of the eight tokens collected from the end.
FirstCollected(k) ==
    CHOOSE j \in 1..Len(LineParts(k)) :
        /\ IsSignedInt(LineParts(k)[j])
        /\ Cardinality({m \in j..Len(LineParts(k)) : IsSignedInt(LineParts(k)[m])}) = 8

\* The name the claim gives the line: the tokens strictly between the rank
\* and the first collected token.
ClaimedName(k) == join(SubSeq(LineParts(k), 2, FirstCollected(k) - 1))

\* The statistics the claim gives the line: the eight collected tokens in
\* their left-to-right order.
ClaimedStats(k) == RecordOf(LastEight(RowNums(LineParts(k))))

\* C4: every eligible line with eight collected tokens is stored under the
\* join of the tokens between its rank and the first collected token, with
\* the eight tokens in order as its statistics (a later line of the same name
\* replacing it), and nothing else is stored.
C4_TextualFallback ==
    pc = "done" =>
        /\ teams.kind = "ok"
        /\ \A k \in 1..Len(html.text) :
              Collects(k) =>
                  /\ ClaimedName(k) \in DOMAIN teams.val
                  /\ \/ teams.val[ClaimedName(k)] = ClaimedStats(k)
                     \/ \E m \in (k + 1)..Len(html.text) :
                           Collects(m) /\ ClaimedName(m) = ClaimedName(k)
        /\ \A n \in DOMAIN teams.val :
              \E k \in 1..Len(html.text) : Collects(k) /\ ClaimedName(k) = n

(***************************************************************************)
(* Documents of several tables and lines, for the order of the strategies. *)
(***************************************************************************)
CandidateHeader ==
    << <<"G", "P">>, <<"W">>, <<"D">>, <<"L">>, <<"F">>, <<"A">>, <<"G", "D">>, <<"P", "T", "S">> >>

OtherHeader ==
    << <<"G", "P">>, <<"W">>, <<"D">>, <<"L">>, <<"F">>, <<"A">>, <<"G", "D">>, <<"P">> >>

NoLead == [cells |-> <<>>, ints |-> <<>>]

\* Two candidate tables with records under different names, a candidate
\* table without any record, a table that is no candidate, and a candidate
\* table with one row that gives a record and one that does not.
KindTables ==
    {[headers |-> CandidateHeader,
      rows |-> <<HeaderRow,
                 PlainRow(NoLead, <<"R", "M">>, <<9, 5, 2, 2, 14, 8, 6, 17>>),
                 PlainRow(NoLead, <<"F", "C", "B">>, <<10, 2, 1, 7, 7, 15, -8, 7>>)>>],
     [headers |-> CandidateHeader,
      rows |-> <<PlainRow(NoLead, <<"A", "T", "M">>, <<9, 5, 2, 2, 14, 8, 6, 17>>)>>],
     [headers |-> CandidateHeader,
      rows |-> <<HeaderRow, ShortRow(<<"S", "E", "V">>, <<9, 5, 2, 2, 14, 8, 6, 17>>)>>],
     [headers |-> OtherHeader,
      rows |-> <<PlainRow(NoLead, <<"V", "A", "L">>, <<10, 2, 1, 7, 7, 15, -8, 7>>)>>],
     [headers |-> CandidateHeader,
      rows |-> <<ShortRow(<<"R", "M">>, <<9, 5, 2, 2, 14, 8, 6, 17>>),
                 CompositeRow(<<"G", "I", "R">>, <<10, 2, 1, 7, 7, 15, -8, 7>>)>>]}

\* A line that gives a record, a line without a rank, a line too short, and
\* an eligible line whose last token has two signs.
KindLines ==
    {join(<<<<"1">>, Real, Madrid>> \o IntCells(<<9, 5, 2, 2, 14, 8, 6, 17>>)),
     join(<<Real, Madrid>> \o IntCells(<<9, 5, 2, 2, 14, 8, 6, 17>>)),
     join(<<<<"1">>, Real, <<"9">>, <<"5">>>>),
     join(<<<<"1">>, Real, Madrid, <<"a">>, <<"b">>, <<"c">>, <<"d">>, <<"e">>,
            <<"+", "-", "5">>>>)}

\* The most tables, and the most lines, of a drawn document.
MaxTables == 2

MaxLines == 1

InitPrecedence ==
    /\ html \in {[tables |-> ts, text |-> ls] :
                    ts \in SeqsUpTo(KindTables, MaxTables),
                    ls \in SeqsUpTo(KindLines, MaxLines)}
    /\ ParseIdle

SpecPrecedence == InitPrecedence /\ [][NextParse]_vars

\* The candidate tables that yield at least one record.
Yielding ==
    {k \in 1..Len(html.tables) :
        IsCandidate(html.tables[k]) /\ TableTeams(html.tables[k]) # <<>>}

FirstYielding == CHOOSE k \in Yielding : \A m \in Yielding : k <= m

\* A line in which the textual scan finds a record: eligible, with eight
\* signed-integer tokens.
LineYields(k) ==
    /\ Len(LineParts(k)) >= 9
    /\ isdigit(LineParts(k)[1])
    /\ Cardinality({j \in 1..Len(LineParts(k)) : IsSignedInt(LineParts(k)[j])}) >= 8

\* The names in the cells of table k.
CellsOf(k) ==
    UNION {Range(html.tables[k].rows[i].cells) : i \in 1..Len(html.tables[k].rows)}

\* C5: the first candidate table that yields a record determines the result,
\* which holds records of that table's rows only; without such a table the
\* result is that of the line scan, and it is the empty mapping, not an
\* error, when no line yields a record either.
C5_StrategyPrecedence ==
    pc = "done" =>
        /\ Yielding # {} =>
              /\ teams = Ok(TableTeams(html.tables[FirstYielding]))
              /\ DOMAIN teams.val \subseteq CellsOf(FirstYielding)
        /\ Yielding = {} =>
              /\ teams.kind = "ok"
              /\ (\A k \in 1..Len(html.text) : ~LineYields(k)) => teams.val = <<>>
              /\ (\E k \in 1..Len(html.text) : LineYields(k)) => teams.val # <<>>

\* The part of C5 that holds: the order of the tables, and the line scan only
\* when no candidate table yielded a record.
C5_FirstYieldingTableWins ==
    pc = "done" =>
        /\ Yielding # {} =>
              /\ teams = Ok(TableTeams(html.tables[FirstYielding]))
              /\ DOMAIN teams.val \subseteq CellsOf(FirstYielding)
        /\ Yielding = {} /\ teams.kind = "ok" =>
              /\ (\A k \in 1..Len(html.text) : ~LineYields(k)) => teams.val = <<>>
              /\ (\E k \in 1..Len(html.text) : LineYields(k)) => teams.val # <<>>

(***************************************************************************)
(* generate_random_standings.                                              *)
(*                                                                         *)
(* The pseudo-random source is a stream of raw numbers; randint and        *)
(* uniform reduce a raw number into their range.  rng holds the raw        *)
(* numbers behind the six draws of the first loop iteration; the draws of  *)
(* the later iterations follow from them by fixed strides, as those of a   *)
(* seeded generator follow from its seed.  strength is sampled in tenths   *)
(* and its products are exact.                                             *)
(***************************************************************************)
teams_list ==
    <<"Real Madrid", "Barcelona", "Villarreal", "Atletico Madrid", "Real Betis",
      "Espanyol", "Celta Vigo", "Real Sociedad", "Athletic Club", "Osasuna",
      "Getafe", "Girona", "Sevilla", "Alaves", "Valencia",
      "Elche", "Rayo Vallecano", "Mallorca", "Levante", "Real Oviedo">>

\* How far the sampled raw numbers of the first iteration go: of strength, of
\* the two goal draws, and of the draws of w and d.
MaxStrengthStep == 1

MaxGoalDraw == 1

MaxRawWins == 3

MaxRawDraws == 3

RngStreams ==
    [gp : 0..(24 - 20), strength : 0..MaxStrengthStep,
     u : 0..MaxGoalDraw, v : 0..MaxGoalDraw,
     w : 0..MaxRawWins, d : 0..MaxRawDraws]

\* The raw numbers behind the draws of loop iteration i (from 0).
Draws(rng, i) ==
    [gp |-> rng.gp + i, strength |-> rng.strength + i,
     u |-> rng.u + 2 * i, v |-> rng.v + 3 * i,
     w |-> rng.w + 5 * i, d |-> rng.d + 7 * i]

\* random.randint(a, b) on the raw number r, for a <= b.
randint(a, b, r) == a + (r % (b - a + 1))

\* random.uniform(0.6, 1.6) on the raw number r, in tenths.
uniform10(r) == 6 + (r % 11)

\* int(x) for x = n / 10, n >= 0.
IntOfTenths(n) == n \div 10

\* The upper end of the draw of w.
WinsUpper(gp) == gp - 6

\* A mutant of DrawsUpper: the margin of 3 games dropped.
DrawsUpperNoMargin(gp, w) == gp - w

\* The upper end of the draw of d.
DrawsUpper(gp, w) == gp - w - 3

\* A mutant of Points: two points for a win.
PointsTwoAWin(w, d) == w * 2 + d

Points(w, d) == w * 3 + d

\* The loop body: the record of one team, or the ValueError of a randint on
\* an empty range.
GenRecord(r) ==
    LET gp       == randint(20, 24, r.gp)
        strength == uniform10(r.strength)
        f        == Max(5, IntOfTenths(strength * randint(20, 60, r.u)))
        a        == Max(5, IntOfTenths((22 - strength) * randint(15, 50, r.v)))
        gd       == f - a
    IN  IF 3 > WinsUpper(gp) THEN Raise("ValueError")
        ELSE LET w == randint(3, WinsUpper(gp), r.w)
             IN  IF 0 > DrawsUpper(gp, w) THEN Raise("ValueError")
                 ELSE LET d   == randint(0, DrawsUpper(gp, w), r.d)
                          l   == gp - w - d
                          pts == Points(w, d)
                      IN  Ok(Stats(gp, w, d, l, f, a, gd, pts))

\* The loop from its iteration i on, teams holding acc: the dict it ends
\* with, or the exception that ends it.
RECURSIVE GenLoop(_, _, _)
GenLoop(rng, i, acc) ==
    IF i > Len(teams_list) THEN Ok(acc)
    ELSE LET rec == GenRecord(Draws(rng, i - 1))
         IN  IF rec.kind = "raise" THEN rec
             ELSE GenLoop(rng, i + 1, (teams_list[i] :> rec.val) @@ acc)

generate_random_standings(rng) == GenLoop(rng, 1, <<>>)

InitGen ==
    /\ pc = "call"
    /\ teams = None
    /\ html = Unused /\ fetched = Unused /\ last_err = Unused
    /\ t1 = Unused /\ t2 = Unused
    /\ team1_stats = Unused /\ team2_stats = Unused /\ max_goals = Unused
    /\ res = Unused /\ calls = 0

\* One call of generate_random_standings on some state of the random source.
Generate ==
    /\ pc = "call"
    /\ \E rng \in RngStreams : teams' = generate_random_standings(rng)
    /\ pc' = "done"
    /\ UNCHANGED <<html, fetched, last_err, t1, t2,
                   team1_stats, team2_stats, max_goals, res, calls>>

NextGen == Generate

SpecGen == InitGen /\ [][NextGen]_vars

Roster == {teams_list[i] : i \in 1..Len(teams_list)}

StatKeys == {"GP", "W", "D", "L", "F", "A", "GD", "PTS"}

Generated == pc = "done" /\ teams.kind = "ok"

\* C8: every generated record has W + D + L = GP with W, D and L non-negative,
\* PTS = 3*W + D, GD = F - A and GP in 20..24.
C8_RecordsConsistent ==
    pc = "done" =>
        /\ teams.kind = "ok"
        /\ \A n \in DOMAIN teams.val :
              LET r == teams.val[n]
              IN  /\ r.W + r.D + r.L = r.GP
                  /\ r.W >= 0 /\ r.D >= 0 /\ r.L >= 0
                  /\ r.PTS = 3 * r.W + r.D
                  /\ r.GD = r.F - r.A
                  /\ r.GP \in 20..24

\* A table with a record at the upper end of both draws (the most wins, then
\* the most draws) and a record at their lower end.
C8_Witness ==
    /\ Generated
    /\ \E n \in DOMAIN teams.val :
          teams.val[n].W = teams.val[n].GP - 6 /\ teams.val[n].D = 3
    /\ \E n \in DOMAIN teams.val :
          teams.val[n].W = 3 /\ teams.val[n].D = 0

\* C9 as stated: each of the 20 roster teams has all eight fields present and
\* non-zero.
C9_NoFieldZero ==
    pc = "done" =>
        /\ teams.kind = "ok"
        /\ DOMAIN teams.val = Roster
        /\ \A n \in DOMAIN teams.val :
              /\ DOMAIN teams.val[n] = StatKeys
              /\ \A k \in StatKeys : teams.val[n][k] # 0

\* C9 as amended: each of the 20 roster teams has all eight fields present,
\* and GP, W, L, F, A and PTS are non-zero (D and GD may be zero).
C9_PopulatedRecords ==
    pc = "done" =>
        /\ teams.kind = "ok"
        /\ DOMAIN teams.val = Roster
        /\ Cardinality(DOMAIN teams.val) = 20
        /\ \A n \in DOMAIN teams.val :
              /\ DOMAIN teams.val[n] = StatKeys
              /\ \A k \in StatKeys \ {"D", "GD"} : teams.val[n][k] # 0

\* A table with a record without draws, a record with a goal difference of
\* zero, and a record with the fewest losses the draws allow.
C9_Witness ==
    /\ Generated
    /\ \E n \in DOMAIN teams.val : teams.val[n].D = 0
    /\ \E n \in DOMAIN teams.val : teams.val[n].GD = 0
    /\ \E n \in DOMAIN teams.val : teams.val[n].L = 3

(***************************************************************************)
(* get_current_standings.                                                  *)
(*                                                                         *)
(* fetch_html either raises (a NameError as the source stands, the import  *)
(* of requests being commented out; a network or status error otherwise)   *)
(* or returns a document.                                                  *)
(***************************************************************************)
ESP_NATIVES ==
    <<"https://www.espn.com/soccer/standings/_/league/ESP.1",
      "https://www.espn.com/soccer/table/_/league/ESP.1">>

\* A document with a table of two teams, an empty one, one with a line that
\* gives a record, and one with a line on which int() raises.
FetchDocs ==
    {[tables |-> <<[headers |-> CandidateHeader,
                    rows |-> <<HeaderRow,
                               PlainRow(NoLead, <<"R", "M">>, <<9, 5, 2, 2, 14, 8, 6, 17>>),
                               PlainRow(NoLead, <<"F", "C", "B">>, <<10, 2, 1, 7, 7, 15, -8, 7>>)>>]>>,
      text |-> <<>>],
     [tables |-> <<>>, text |-> <<>>],
     [tables |-> <<>>,
      text |-> <<join(<<<<"1">>, Real, Madrid>> \o IntCells(<<9, 5, 2, 2, 14, 8, 6, 17>>))>>],
     [tables |-> <<>>,
      text |-> <<join(<<<<"1">>, Real, Madrid, <<"a">>, <<"b">>, <<"c">>, <<"d">>, <<"e">>,
                        <<"+", "-", "5">>>>)>>]}

FetchOutcomes == {Raise("NameError")} \cup {Ok(d) : d \in FetchDocs}

\* A mutant of Usable: an empty mapping is returned too.
UsableAlways(parsed) == TRUE

\* if teams:
Usable(parsed) == parsed # <<>>

InitFetch ==
    /\ pc = "loop"
    /\ fetched = <<>>
    /\ last_err = None
    /\ teams = None
    /\ html = Unused /\ t1 = Unused /\ t2 = Unused
    /\ team1_stats = Unused /\ team2_stats = Unused /\ max_goals = Unused
    /\ res = Unused /\ calls = 0

\* One iteration of the loop over ESP_NATIVES.
TrySource ==
    /\ pc = "loop"
    /\ Len(fetched) < Len(ESP_NATIVES)
    /\ \E out \in FetchOutcomes :
          LET url    == ESP_NATIVES[Len(fetched) + 1]
              parsed == IF out.kind = "ok" THEN parse_standings(out.val) ELSE out
          IN  /\ fetched' = Append(fetched, [url |-> url, out |-> out])
              /\ IF parsed.kind = "raise"
                 THEN last_err' = parsed /\ UNCHANGED <<teams, pc>>
                 ELSE IF Usable(parsed.val)
                 THEN teams' = parsed /\ pc' = "done" /\ UNCHANGED last_err
                 ELSE UNCHANGED <<teams, pc, last_err>>
    /\ UNCHANGED <<html, t1, t2, team1_stats, team2_stats, max_goals, res, calls>>

\* After the loop: the fallback to generate_random_standings().
Fallback ==
    /\ pc = "loop"
    /\ Len(fetched) = Len(ESP_NATIVES)
    /\ \E rng \in RngStreams :
          LET made == generate_random_standings(rng)
          IN  /\ teams' = made
              /\ pc' = IF made.kind = "ok" THEN "done" ELSE "raised"
    /\ UNCHANGED <<html, fetched, last_err, t1, t2,
                   team1_stats, team2_stats, max_goals, res, calls>>

NextFetch == TrySource \/ Fallback

SpecFetch == InitFetch /\ [][NextFetch]_vars

\* What source k gave: a fetched document that parses to a non-empty mapping.
SourceGood(k) ==
    /\ fetched[k].out.kind = "ok"
    /\ parse_standings(fetched[k].out.val).kind = "ok"
    /\ parse_standings(fetched[k].out.val).val # <<>>

GoodSources == {k \in 1..Len(fetched) : SourceGood(k)}

\* C1: get_current_standings never propagates a failure and returns a
\* non-empty table: the sources are tried in list order, the first one whose
\* fetch succeeds and whose parse is non-empty is returned, a source that
\* raised or parsed to nothing is passed over, and when all did, the result is
\* the generator's table of the 20 roster teams.
C1_AlwaysUsableStandings ==
    /\ pc # "raised"
    /\ \A k \in 1..Len(fetched) : fetched[k].url = ESP_NATIVES[k]
    /\ pc = "loop" => \A k \in 1..Len(fetched) : ~SourceGood(k)
    /\ pc = "done" =>
          /\ teams.kind = "ok"
          /\ teams.val # <<>>
          /\ IF GoodSources # {}
             THEN /\ GoodSources = {Len(fetched)}
                  /\ teams = parse_standings(fetched[Len(fetched)].out.val)
             ELSE /\ Len(fetched) = Len(ESP_NATIVES)
                  /\ DOMAIN teams.val = Roster
                  /\ Cardinality(DOMAIN teams.val) = 20

\* The fallback table returned after a fetch that raised and a parse that
\* raised.
C1_Witness ==
    /\ pc = "done"
    /\ Len(fetched) = 2
    /\ fetched[1].out.kind = "raise"
    /\ fetched[2].out.kind = "ok"
    /\ last_err = Raise("ValueError")
    /\ DOMAIN teams.val = Roster

(***************************************************************************)
(* choose_team and main.                                                   *)
(***************************************************************************)

\* The characters of the model in code point order.
CharOrder == <<" ", "+", "-", ".">> \o Digits \o Uppers \o Lowers

\* a < b for strings
RECURSIVE TextLess(_, _)
TextLess(a, b) ==
    IF b = <<>> THEN FALSE
    ELSE IF a = <<>> THEN TRUE
    ELSE IF Head(a) = Head(b) THEN TextLess(Tail(a), Tail(b))
    ELSE IndexIn(CharOrder, Head(a)) < IndexIn(CharOrder, Head(b))

\* sorted(S) for a set of strings
RECURSIVE sorted(_)
sorted(S) ==
    IF S = {} THEN <<>>
    ELSE LET least == CHOOSE a \in S : \A b \in S \ {a} : TextLess(a, b)
         IN  <<least>> \o sorted(S \ {least})

\* names[i] with Python's indexing: negative indices count from the end.
ListItem(names, i) ==
    IF i >= 0 /\ i < Len(names) THEN Ok(names[i + 1])
    ELSE IF i < 0 /\ i >= 0 - Len(names) THEN Ok(names[Len(names) + i + 1])
    ELSE Raise("IndexError")

\* choose_team(teams, prompt), input() returning typed.val or raising EOFError.
choose_team(table, typed) ==
    LET names  == sorted(DOMAIN table)
        choice == typed.val
        idx    == int(choice)
        item   == IF idx.kind = "ok" THEN ListItem(names, idx.val - 1) ELSE idx
        hits   == {i \in 1..Len(names) : Contains(lower(names[i]), lower(choice))}
    IN  IF typed.kind = "raise" THEN typed
        ELSE IF item.kind = "ok" THEN item
        ELSE IF hits # {} THEN Ok(names[CHOOSE i \in hits : \A j \in hits : i <= j])
        ELSE Raise("ValueError")

\* The tables get_current_standings hands to main: every non-empty choice of
\* four teams after their first game, small enough for the predictor's
\* products at max_goals = 6.
MainPool ==
    (<<"R", "e", "a", "l">> :> Stats(1, 1, 0, 0, 2, 1, 1, 3))
    @@ (<<"B", "e", "t", "i", "s">> :> Stats(1, 0, 1, 0, 1, 1, 0, 1))
    @@ (<<"E", "l", "c", "h", "e">> :> Stats(1, 0, 0, 1, 0, 2, -2, 0))
    @@ (<<"G", "e", "t", "a", "f", "e">> :> Stats(1, 1, 0, 0, 1, 0, 1, 3))

MainTables == {[n \in S |-> MainPool[n]] : S \in (SUBSET DOMAIN MainPool) \ {{}}}

\* What the user may type.
ChoiceChars == {"0", "1", "2", "-", "e", "B"}

MaxChoiceLen == 2

\* What input() does: it returns a line, or raises at the end of the input.
Choices == {Ok(c) : c \in SeqsUpTo(ChoiceChars, MaxChoiceLen)} \cup {Raise("EOFError")}

\* A mutant of SameTeam: the comparison never holds.
SameTeamNever(a, b) == FALSE

\* if t1 == t2:
SameTeam(a, b) == a = b

InitMain ==
    /\ pc = "start"
    /\ teams = None
    /\ t1 = None /\ t2 = None
    /\ res = None
    /\ calls = 0
    /\ html = Unused /\ fetched = Unused /\ last_err = Unused
    /\ team1_stats = Unused /\ team2_stats = Unused /\ max_goals = Unused

\* teams = get_current_standings(), and the exit on an empty result.
MainFetch ==
    /\ pc = "start"
    /\ \E table \in MainTables :
          /\ teams' = Ok(table)
          /\ pc' = IF table = <<>> THEN "done" ELSE "home"
    /\ UNCHANGED <<html, fetched, last_err, t1, t2,
                   team1_stats, team2_stats, max_goals, res, calls>>

\* t1 = choose_team(...): an exception ends the run.
ChooseHome ==
    /\ pc = "home"
    /\ \E choice \in Choices :
          /\ t1' = choose_team(teams.val, choice)
          /\ pc' = IF t1'.kind = "ok" THEN "away" ELSE "done"
    /\ UNCHANGED <<html, teams, fetched, last_err, t2,
                   team1_stats, team2_stats, max_goals, res, calls>>

\* t2 = choose_team(...): an exception ends the run.
ChooseAway ==
    /\ pc = "away"
    /\ \E choice \in Choices :
          /\ t2' = choose_team(teams.val, choice)
          /\ pc' = IF t2'.kind = "ok" THEN "compare" ELSE "done"
    /\ UNCHANGED <<html, teams, fetched, last_err, t1,
                   team1_stats, team2_stats, max_goals, res, calls>>

\* The comparison of the two names, and the prediction and its printing.
MainPredict ==
    /\ pc = "compare"
    /\ IF SameTeam(t1.val, t2.val)
       THEN UNCHANGED <<res, calls>>
       ELSE /\ res' = predict_scoreline(teams.val[t1.val], teams.val[t2.val], 6)
            /\ calls' = calls + 1
    /\ pc' = "done"
    /\ UNCHANGED <<html, teams, fetched, last_err, t1, t2,
                   team1_stats, team2_stats, max_goals>>

NextMain == MainFetch \/ ChooseHome \/ ChooseAway \/ MainPredict

SpecMain == InitMain /\ [][NextMain]_vars

\* C2: predict_scoreline is invoked only after both selections succeeded with
\* two different names, and a run in which a selection raised or both names
\* are the same ends without invoking it.
C2_PredictOnlyForTwoTeams ==
    /\ calls > 0 =>
          /\ calls = 1
          /\ t1.kind = "ok" /\ t2.kind = "ok"
          /\ t1.val # t2.val
          /\ {t1.val, t2.val} \subseteq DOMAIN teams.val
    /\ (pc = "done" /\ (t1.kind # "ok" \/ t2.kind # "ok" \/ t1 = t2)) =>
          calls = 0 /\ res = None
    /\ res # None => calls > 0

\* A run that ended on two selections of the same team.
C2_Witness ==
    /\ pc = "done"
    /\ t1.kind = "ok"
    /\ t2 = t1
    /\ calls = 0
    /\ Cardinality(DOMAIN teams.val) > 1

====
